---- MODULE Spec2Model ----
(***************************************************************************)
(* Model of the Mara River dashboard's calibration-offset, freshness and   *)
(* persistence logic: the manage-calibration-offsets edge function, the    *)
(* offset resolver of the dashboard (applyCalibrationOffset) and of the    *)
(* fetch-stevens-data edge function (applyOffset), and the freshness gate  *)
(* and background persistence of fetch-stevens-data.                       *)
(*                                                                         *)
(* Instants are integers (minutes).  A nullable column is a set: {} is     *)
(* null, {x} is the value x.                                               *)
(***************************************************************************)
EXTENDS Integers, Sequences, FiniteSets, TLC

\* ------------------------------------------------------------------ bounds
\* Instants an operator may enter for valid_from / valid_until, 0..MaxTime.
MaxTime == 1
\* Offsets the endpoint creates in one run (ids 1..MaxOffsets).
MaxOffsets == 2
\* The clock runs from 0 to MaxNow in steps of TickMinutes.
MaxNow == 20
TickMinutes == 5
\* Rows of api_fetch_log the freshness check is tried on.
MaxLog == 2
\* Upstream refreshes in one run, and readings the provider returns for one refresh.
MaxRefresh == 2
MaxReadings == 3
\* Readings of the sensor the malfunction detector is tried on (its window holds 20).
MaxSeries == 21
\* Rows of ai_analyses the analysis cache is tried on.
MaxAnalyses == 2
\* Create requests handled at the same time.
MaxCreates == 2

\* ------------------------------------------------------------------ domains
Channels == {"ch1", "ch2"}
OffsetValues == {2}
RawValues == {7}
Times == 0..MaxTime
Reasons == {"bad calibration"}
Passwords == {"secret", "guess"}
CalActions == {"create", "update", "delete", "delete_reading"}

\* ------------------------------------------------------------------ helpers
Null == {}
IsNull(x) == x = {}
Val(x) == CHOOSE v \in x : TRUE
Nullable(S) == {Null} \cup {{v} : v \in S}
Min(S) == CHOOSE m \in S : \A n \in S : m <= n
Max(S) == CHOOSE m \in S : \A n \in S : m >= n
Range(s) == {s[i] : i \in DOMAIN s}
\* The orders in which a SELECT without ORDER BY may return the rows of a table.
RowOrders(S) == {s \in [1..Cardinality(S) -> S] : \A i, j \in 1..Cardinality(S) : s[i] = s[j] => i = j}

VARIABLES
    offsets,             \* table sensor_calibration_offsets: a set of rows
    nextId,              \* the next id gen_random_uuid() hands out
    reading,             \* the sensor reading the dashboard is rendering
    sensor,              \* the sensor of the response the dashboard is classifying
    analyses,            \* table ai_analyses: a set of rows
    creates,             \* the create requests being handled, each at its step
    now,                 \* the clock (Date.now()), in minutes
    fetchLog,            \* table api_fetch_log: a set of rows
    stationStored,       \* table sensor_stations holds the row of the target station
    channelsStored,      \* table sensor_channels holds the station's channels
    readings,            \* table sensor_readings: a set of rows
    refreshes,           \* the upstream refreshes so far: request pipeline, then background task,
                         \* each with the Error it threw, if any
    out                  \* what the last operation returned (response or return value)

fetchVars == <<stationStored, channelsStored, readings, refreshes>>
vars == <<offsets, nextId, reading, sensor, analyses, creates, now, fetchLog, fetchVars, out>>

\* The data an operator submits with create / update.
OffsetData ==
    [channel_id : Channels, offset_value : OffsetValues, valid_from : Times,
     valid_until : Nullable(Times), reason : Reasons]

\* ------------------------------------------------------------------ manage-calibration-offsets
CALIBRATION_PASSWORD == "secret"
\* '9999-12-31', the upper end the overlap query uses for an open-ended new offset.
SentinelDate == 9999

\* A check that lets every password through.
PasswordOkAny(password) == TRUE
\* password === CALIBRATION_PASSWORD, the secret being set.
PasswordOk(password) == password = CALIBRATION_PASSWORD

\* The upper bound of the overlap query: data.valid_until || '9999-12-31'.
QueryUpper(data) == IF IsNull(data.valid_until) THEN SentinelDate ELSE Val(data.valid_until)

\* The rows the pre-insert query returns:
\*   .eq(channel_id).or(valid_until.is.null, valid_until.gte.valid_from).lte(valid_from, upper)
OverlapQueryLax(rows, data) ==
    {o \in rows : /\ o.channel_id = data.channel_id
                  /\ (IsNull(o.valid_until) \/ Val(o.valid_until) > data.valid_from)
                  /\ o.valid_from <= QueryUpper(data)}
OverlapQuery(rows, data) ==
    {o \in rows : /\ o.channel_id = data.channel_id
                  /\ (IsNull(o.valid_until) \/ Val(o.valid_until) >= data.valid_from)
                  /\ o.valid_from <= QueryUpper(data)}

NewRow(id, data) ==
    [id |-> id, channel_id |-> data.channel_id, offset_value |-> data.offset_value,
     valid_from |-> data.valid_from, valid_until |-> data.valid_until, reason |-> data.reason]

Response(action, status, error) == [op |-> action, status |-> status, error |-> error]

\* Password mismatch: 401 before anything is read or written.
Unauthorized(action, password) ==
    /\ ~PasswordOk(password)
    /\ out' = Response("auth", 401, "Invalid password")
    /\ UNCHANGED <<offsets, nextId, reading, sensor, analyses, creates, now, fetchLog, fetchVars>>

\* CALIBRATION_PASSWORD is not set in the environment: 401 whatever the password.
SecretMissing(action, password) ==
    /\ out' = Response("auth", 401, "Invalid password")
    /\ UNCHANGED <<offsets, nextId, reading, sensor, analyses, creates, now, fetchLog, fetchVars>>

\* case 'create': the overlap query, then the insert.
CreateOffset(password, data) ==
    /\ PasswordOk(password)
    /\ nextId <= MaxOffsets
    /\ IF OverlapQuery(offsets, data) # {}
       THEN /\ out' = Response("create", 400, "Overlapping offset period exists for this sensor")
            /\ UNCHANGED <<offsets, nextId>>
       ELSE /\ offsets' = offsets \cup {NewRow(nextId, data)}
            /\ nextId' = nextId + 1
            /\ out' = Response("create", 200, "")
    /\ UNCHANGED <<reading, sensor, analyses, creates, now, fetchLog, fetchVars>>

\* case 'create' as the handler runs it, one awaited database call at a time: a request
\* with the password and data enters the case, ...
CreateArrives(password, data) ==
    /\ PasswordOk(password)
    /\ Len(creates) < MaxCreates
    /\ creates' = Append(creates, [data |-> data, stage |-> "query"])
    /\ UNCHANGED <<offsets, nextId, reading, sensor, analyses, now, fetchLog, fetchVars, out>>

\* ... its overlap query reads the table as it is and a non-empty result is answered 400, ...
CreateQueries(i) ==
    /\ creates[i].stage = "query"
    /\ IF OverlapQuery(offsets, creates[i].data) # {}
       THEN /\ creates' = [creates EXCEPT ![i].stage = "rejected"]
            /\ out' = Response("create", 400, "Overlapping offset period exists for this sensor")
       ELSE /\ creates' = [creates EXCEPT ![i].stage = "insert"]
            /\ UNCHANGED out
    /\ UNCHANGED <<offsets, nextId, reading, sensor, analyses, now, fetchLog, fetchVars>>

\* ... and after an empty result its insert adds the row, whatever the table holds by then.
CreateInserts(i) ==
    /\ creates[i].stage = "insert"
    /\ offsets' = offsets \cup {NewRow(nextId, creates[i].data)}
    /\ nextId' = nextId + 1
    /\ creates' = [creates EXCEPT ![i].stage = "created"]
    /\ out' = Response("create", 200, "")
    /\ UNCHANGED <<reading, sensor, analyses, now, fetchLog, fetchVars>>

\* case 'update': the four fields are written to the row with this id, no overlap query;
\* .single() fails when no row has the id.
UpdateOffset(password, id, data) ==
    /\ PasswordOk(password)
    /\ IF \E o \in offsets : o.id = id
       THEN /\ offsets' = {IF o.id = id
                           THEN [o EXCEPT !.offset_value = data.offset_value,
                                          !.valid_from = data.valid_from,
                                          !.valid_until = data.valid_until,
                                          !.reason = data.reason]
                           ELSE o : o \in offsets}
            /\ out' = Response("update", 200, "")
       ELSE /\ out' = Response("update", 500, "no row")
            /\ UNCHANGED offsets
    /\ UNCHANGED <<nextId, reading, sensor, analyses, creates, now, fetchLog, fetchVars>>

\* OffsetManagementTable isActive: no end, or an end after the present instant.
isActive(offset) == IF IsNull(offset.valid_until) THEN TRUE ELSE Val(offset.valid_until) > now

\* handleDeactivateOffset, offered for active offsets: an update that sends the offset's
\* own offset_value, valid_from and reason back, and the present instant as valid_until.
DeactivateOffset(password, id) ==
    \E offset \in offsets :
        /\ offset.id = id
        /\ isActive(offset)
        /\ UpdateOffset(password, id,
                        [channel_id |-> offset.channel_id,
                         offset_value |-> offset.offset_value,
                         valid_from |-> offset.valid_from,
                         valid_until |-> {now},
                         reason |-> offset.reason])

\* case 'delete': removes the row with this id (no error when there is none).
DeleteOffset(password, id) ==
    /\ PasswordOk(password)
    /\ offsets' = {o \in offsets : o.id # id}
    /\ out' = Response("delete", 200, "")
    /\ UNCHANGED <<nextId, reading, sensor, analyses, creates, now, fetchLog, fetchVars>>

\* create / update / delete without data (or without data.id): thrown, 500.
MissingData(password, action) ==
    /\ PasswordOk(password)
    /\ action \in {"create", "update", "delete"}
    /\ out' = Response(action, 500, "Data required")
    /\ UNCHANGED <<offsets, nextId, reading, sensor, analyses, creates, now, fetchLog, fetchVars>>

\* default: any other action is thrown as 'Invalid action', 500.
InvalidAction(password, action) ==
    /\ PasswordOk(password)
    /\ action \notin {"create", "update", "delete"}
    /\ out' = Response(action, 500, "Invalid action")
    /\ UNCHANGED <<offsets, nextId, reading, sensor, analyses, creates, now, fetchLog, fetchVars>>

\* ------------------------------------------------------------------ resolvers
\* The interval test of both resolvers:
\*   readingTime >= validFrom && (!validUntil || readingTime <= validUntil)
CoversExclusive(offset, timestamp) ==
    /\ timestamp >= offset.valid_from
    /\ (IsNull(offset.valid_until) \/ timestamp < Val(offset.valid_until))
Covers(offset, timestamp) ==
    /\ timestamp >= offset.valid_from
    /\ (IsNull(offset.valid_until) \/ timestamp <= Val(offset.valid_until))

\* Array.prototype.find: the first element whose index is among the hits, as a nullable.
FindLast(list, hits) == IF hits = {} THEN Null ELSE {list[Max(hits)]}
Find(list, hits) == IF hits = {} THEN Null ELSE {list[Min(hits)]}

\* Index.tsx applyCalibrationOffset over the fetched offsets.
applyAnyChannel(given, value, channelId, timestamp) ==
    LET activeOffset == Find(given, {i \in DOMAIN given : Covers(given[i], timestamp)})
    IN  IF ~IsNull(activeOffset)
        THEN [corrected |-> value + Val(activeOffset).offset_value, offset |-> activeOffset]
        ELSE [corrected |-> value, offset |-> Null]
applyCalibrationOffset(given, value, channelId, timestamp) ==
    LET activeOffset ==
            Find(given, {i \in DOMAIN given :
                            given[i].channel_id = channelId /\ Covers(given[i], timestamp)})
    IN  IF ~IsNull(activeOffset)
        THEN [corrected |-> value + Val(activeOffset).offset_value, offset |-> activeOffset]
        ELSE [corrected |-> value, offset |-> Null]

\* fetch-stevens-data: offsetsMap groups the fetched rows by channel_id, in row order.
offsetsMap(given) ==
    [c \in {o.channel_id : o \in Range(given)} |->
        SelectSeq(given, LAMBDA o : o.channel_id = c)]

\* fetch-stevens-data applyOffset: a number only.
applyOffset(given, value, channelId, timestamp) ==
    LET map == offsetsMap(given)
    IN  IF channelId \notin DOMAIN map THEN value
        ELSE LET offsets_ == map[channelId]
                 activeOffset ==
                     Find(offsets_, {i \in DOMAIN offsets_ : Covers(offsets_[i], timestamp)})
             IN  IF ~IsNull(activeOffset) THEN value + Val(activeOffset).offset_value
                 ELSE value

\* The dashboard loads the offsets (fetchCalibrationOffsets, rows in any order) and
\* renders its reading; the edge function corrects the same reading with applyOffset.
RenderReading ==
    /\ \E given \in RowOrders(offsets) :
         LET r == applyCalibrationOffset(given, reading.value, reading.channelId, reading.timestamp)
             e == applyOffset(given, reading.value, reading.channelId, reading.timestamp)
         IN  out' = [op |-> "resolve", given |-> given, corrected |-> r.corrected,
                     offset |-> r.offset, edgeCorrected |-> e]
    /\ UNCHANGED <<offsets, nextId, reading, sensor, analyses, creates, now, fetchLog, fetchVars>>

\* The path of one reading to the screen: the edge function loads the offsets and puts
\* applyOffset(raw) into the sensor it serves (current value and chart readings alike);
\* renderSensorChart then passes that served value through applyCalibrationOffset with
\* the offsets the dashboard loaded, and draws the result.
DisplayReading ==
    /\ \E edgeGiven \in RowOrders(offsets), clientGiven \in RowOrders(offsets) :
         LET served == applyOffset(edgeGiven, reading.value, reading.channelId, reading.timestamp)
             shown == applyCalibrationOffset(clientGiven, served, reading.channelId, reading.timestamp)
         IN  out' = [op |-> "display", raw |-> reading.value, served |-> served,
                     displayed |-> shown.corrected, offset |-> shown.offset]
    /\ UNCHANGED <<offsets, nextId, reading, sensor, analyses, creates, now, fetchLog, fetchVars>>

NoReading == [value |-> 0, channelId |-> "none", timestamp |-> 0]
NoSensor == [name |-> <<>>, currentValue |-> 0, readings |-> <<>>]
\* The reading tables empty and no refresh under way.
NoFetch ==
    /\ stationStored = FALSE
    /\ channelsStored = FALSE
    /\ readings = {}
    /\ refreshes = <<>>

\* ------------------------------------------------------------------ specifications
\* The calibration-management endpoint, requests handled one at a time.
InitCal ==
    /\ offsets = {}
    /\ nextId = 1
    /\ reading = NoReading
    /\ sensor = NoSensor
    /\ analyses = {}
    /\ creates = <<>>
    /\ now = 0
    /\ fetchLog = {}
    /\ NoFetch
    /\ out = [op |-> "none"]

NextCal ==
    \/ \E a \in CalActions, p \in Passwords : Unauthorized(a, p)
    \/ \E a \in CalActions, p \in Passwords : SecretMissing(a, p)
    \/ \E p \in Passwords, d \in OffsetData : CreateOffset(p, d)
    \/ \E p \in Passwords, id \in 1..MaxOffsets, d \in OffsetData : UpdateOffset(p, id, d)
    \/ \E p \in Passwords, id \in 1..MaxOffsets : DeleteOffset(p, id)
    \/ \E p \in Passwords, a \in CalActions : MissingData(p, a)
    \/ \E p \in Passwords, a \in CalActions : InvalidAction(p, a)

SpecCal == InitCal /\ [][NextCal]_vars

\* The endpoint handling create requests concurrently: each handler's query and insert
\* are separate awaited calls, and nothing orders the calls of two handlers.
NextConcurrent ==
    \/ \E d \in OffsetData : CreateArrives(CALIBRATION_PASSWORD, d)
    \/ \E i \in 1..MaxCreates : i \in DOMAIN creates /\ CreateQueries(i)
    \/ \E i \in 1..MaxCreates : i \in DOMAIN creates /\ CreateInserts(i)

SpecConcurrent == InitCal /\ [][NextConcurrent]_vars

\* The resolvers as functions of their inputs: the table holds any rows the endpoint can
\* leave behind (update writes any interval), row i carrying the offset value
\* OffsetValueOf(i) so that a result tells which rows were applied.
OffsetValueOf(id) == 2 ^ (id - 1)
ResolveData == [channel_id : Channels, valid_from : Times, valid_until : Nullable(Times)]
TableOf(f) ==
    {[id |-> i, channel_id |-> f[i].channel_id, offset_value |-> OffsetValueOf(i),
      valid_from |-> f[i].valid_from, valid_until |-> f[i].valid_until,
      reason |-> "bad calibration"] : i \in DOMAIN f}
Readings == [value : RawValues, channelId : Channels, timestamp : Times]

InitResolve ==
    /\ \E m \in 0..MaxOffsets : \E f \in [1..m -> ResolveData] :
         /\ offsets = TableOf(f)
         /\ nextId = m + 1
    /\ reading \in Readings
    /\ sensor = NoSensor
    /\ analyses = {}
    /\ creates = <<>>
    /\ now = 0
    /\ fetchLog = {}
    /\ NoFetch
    /\ out = [op |-> "none"]

NextResolve ==
    \/ \E id \in 1..MaxOffsets : DeleteOffset(CALIBRATION_PASSWORD, id)
    \/ RenderReading

SpecResolve == InitResolve /\ [][NextResolve]_vars

\* Deactivation at any instant, over any offsets table.
InitDeactivate ==
    /\ \E m \in 0..MaxOffsets : \E f \in [1..m -> ResolveData] :
         /\ offsets = TableOf(f)
         /\ nextId = m + 1
    /\ reading \in Readings
    /\ sensor = NoSensor
    /\ analyses = {}
    /\ creates = <<>>
    /\ now \in Times
    /\ fetchLog = {}
    /\ NoFetch
    /\ out = [op |-> "none"]

NextDeactivate == \E id \in 1..MaxOffsets : DeactivateOffset(CALIBRATION_PASSWORD, id)

SpecDeactivate == InitDeactivate /\ [][NextDeactivate]_vars

\* A reading on its way from the reading store to the chart, over any offsets table.
NextDisplay == DisplayReading

SpecDisplay == InitResolve /\ [][NextDisplay]_vars
\* ------------------------------------------------------------------ freshness gate
Stations == {"st1", "st2"}
FetchStatuses == {"in_progress", "success", "failed"}
\* 15 * 60 * 1000 ms.
FIFTEEN_MINUTES == 15

\* lastFetch < new Date(Date.now() - threshold)
StaleAfterYounger(lastFetch, nowT, threshold) == lastFetch > nowT - threshold
StaleAfterInclusive(lastFetch, nowT, threshold) == lastFetch <= nowT - threshold
StaleAfter(lastFetch, nowT, threshold) == lastFetch < nowT - threshold

\* The rows of the query: .eq(station_id).eq(status, 'success').
SuccessRowsAnyStatus(log, stationUuid) == {e \in log : e.station_id = stationUuid}
SuccessRows(log, stationUuid) ==
    {e \in log : e.station_id = stationUuid /\ e.status = "success"}

\* shouldFetchFreshData: no success row, or the latest one completed over 15 minutes ago.
shouldFetchFreshData(log, stationUuid, nowT) ==
    LET rows == SuccessRows(log, stationUuid)
    IN  IF rows = {} THEN TRUE
        ELSE StaleAfter(Max({e.fetch_completed_at : e \in rows}), nowT, FIFTEEN_MINUTES)

\* The clock advances.
Tick ==
    /\ now + TickMinutes <= MaxNow
    /\ now' = now + TickMinutes
    /\ UNCHANGED <<offsets, nextId, reading, sensor, analyses, creates, fetchLog, fetchVars, out>>

\* The freshness check of one station against the log as it is.
CheckFreshness(stationUuid) ==
    /\ out' = [op |-> "shouldFetch", station |-> stationUuid, at |-> now,
               shouldFetch |-> shouldFetchFreshData(fetchLog, stationUuid, now)]
    /\ UNCHANGED <<offsets, nextId, reading, sensor, analyses, creates, now, fetchLog, fetchVars>>

\* The freshness check as a function of the log: any rows the table admits.
LogRows ==
    [station_id : Stations, status : FetchStatuses,
     fetch_completed_at : {0, TickMinutes}, readings_count : {0}]

InitFresh ==
    /\ offsets = {}
    /\ nextId = 1
    /\ reading = NoReading
    /\ sensor = NoSensor
    /\ analyses = {}
    /\ creates = <<>>
    /\ now = 0
    /\ fetchLog \in {l \in SUBSET LogRows : Cardinality(l) <= MaxLog}
    /\ NoFetch
    /\ out = [op |-> "none"]

NextFresh ==
    \/ Tick
    \/ \E st \in Stations : CheckFreshness(st)

SpecFresh == InitFresh /\ [][NextFresh]_vars

\* The freshness check over a log nobody writes to while time passes: the clock runs
\* until every row the log can hold is older than the threshold.
ClockEnd == TickMinutes + FIFTEEN_MINUTES + TickMinutes

ClockAdvance ==
    /\ now < ClockEnd
    /\ now' = now + TickMinutes
    /\ UNCHANGED <<offsets, nextId, reading, sensor, analyses, creates, fetchLog, fetchVars, out>>

NextAging ==
    \/ ClockAdvance
    \/ \E st \in Stations : CheckFreshness(st)

\* Time does not stop.
SpecAging == InitFresh /\ [][NextAging]_vars /\ WF_vars(ClockAdvance)

\* ------------------------------------------------------------------ fetch-stevens-data
\* The uuid of the sensor_stations row of TARGET_STATION_ID, and of its channel.
TARGET_STATION == "st1"
StationChannels == {"ch1"}
\* 7 * 24 * 60 * 60 * 1000 ms.
SEVEN_DAYS == 10080
\* batchSize, 1000 in the code, scaled so that a refresh of MaxReadings rows has two batches.
batchSize == 2

\* What the provider returns at instant t: its last n readings, one per TickMinutes.
UpstreamRows(n, t) ==
    [i \in 1..n |-> [channel_id |-> "ch1", measured_at |-> t - (n - i) * TickMinutes,
                     value |-> 7]]

\* getCachedData: null without the station, its channels, or a reading of the last 7 days.
getCachedData ==
    IF ~stationStored THEN Null
    ELSE IF ~channelsStored THEN Null
    ELSE LET rows == {r \in readings : /\ r.channel_id \in StationChannels
                                        /\ r.measured_at >= now - SEVEN_DAYS}
         IN  IF rows = {} THEN Null ELSE {[station |-> TARGET_STATION, readings |-> rows]}

\* The decision taken from the fetch log alone, whatever the tables hold.
ShouldFetchIgnoringCache(forceRefresh) ==
    IF ~forceRefresh
    THEN shouldFetchFreshData(fetchLog, TARGET_STATION, now)
    ELSE forceRefresh
\* let shouldFetch = forceRefresh || !cachedData; with cached data and no forceRefresh
\* it is shouldFetchFreshData's answer.
ShouldFetch(forceRefresh) ==
    IF ~IsNull(getCachedData) /\ ~forceRefresh
    THEN shouldFetchFreshData(fetchLog, Val(getCachedData).station, now)
    ELSE forceRefresh \/ IsNull(getCachedData)

\* An Error object carries a message and nothing else; no Error is the empty message.
Error(message) == [message |-> message]
NoError == Error("")

Served(source, status, rid) == [op |-> "serve", source |-> source, status |-> status, rid |-> rid]

\* The refresh whose request is still in the upstream pipeline, if any.
Foreground == {i \in DOMAIN refreshes : refreshes[i].stage \in {"auth", "config", "readings"}}

\* A request arrives: served from the tables, or the upstream pipeline starts.
Request(forceRefresh) ==
    /\ Foreground = {}
    /\ IF ~ShouldFetch(forceRefresh)
       THEN /\ out' = Served("CACHE", 200, 0)
            /\ UNCHANGED refreshes
       ELSE /\ Len(refreshes) < MaxRefresh
            /\ refreshes' = Append(refreshes, [stage |-> "auth", rows |-> <<>>, idx |-> 1,
                                               thrown |-> NoError])
            /\ out' = [op |-> "fetching", source |-> "UPSTREAM", status |-> 0,
                       rid |-> Len(refreshes) + 1, forceRefresh |-> forceRefresh,
                       at |-> now]
    /\ UNCHANGED <<offsets, nextId, reading, sensor, analyses, creates, now, fetchLog, stationStored, channelsStored, readings>>

\* A handler that answers 500 and goes on to store what it has.
FailAndStore(rid, message) ==
    /\ refreshes' = [refreshes EXCEPT ![rid].stage = "meta", ![rid].thrown = Error(message)]
    /\ out' = Served("UPSTREAM", 500, rid)
\* A step of the pipeline fails: thrown to the handler's catch, answered 500.
Fail(rid, message) ==
    /\ refreshes' = [refreshes EXCEPT ![rid].stage = "failed", ![rid].thrown = Error(message)]
    /\ out' = Served("UPSTREAM", 500, rid)

\* Step 1: authenticate (credentials present, response ok, token received).
Authenticate(ok) ==
    /\ \E rid \in Foreground :
        /\ refreshes[rid].stage = "auth"
        /\ IF ok THEN /\ refreshes' = [refreshes EXCEPT ![rid].stage = "config"]
                       /\ UNCHANGED out
           ELSE Fail(rid, "Authentication failed")
    /\ UNCHANGED <<offsets, nextId, reading, sensor, analyses, creates, now, fetchLog, stationStored, channelsStored, readings>>

\* Step 2: the config packet (response ok, a project, the station, its M 20 channels).
FetchConfig(ok) ==
    /\ \E rid \in Foreground :
        /\ refreshes[rid].stage = "config"
        /\ IF ok THEN /\ refreshes' = [refreshes EXCEPT ![rid].stage = "readings"]
                       /\ UNCHANGED out
           ELSE Fail(rid, "Config fetch failed")
    /\ UNCHANGED <<offsets, nextId, reading, sensor, analyses, creates, now, fetchLog, stationStored, channelsStored, readings>>

\* A handler that logs the fetch before it responds.
FetchReadingsLogged(ok, n) ==
    /\ \E rid \in Foreground :
        /\ refreshes[rid].stage = "readings"
        /\ IF ok THEN /\ refreshes' = [refreshes EXCEPT ![rid].stage = "meta",
                                                          ![rid].rows = UpstreamRows(n, now)]
                       /\ fetchLog' = fetchLog \cup
                              {[id |-> rid, station_id |-> TARGET_STATION, status |-> "success",
                                fetch_completed_at |-> now, readings_count |-> n]}
                       /\ out' = Served("UPSTREAM", 200, rid)
           ELSE Fail(rid, "Readings fetch failed") /\ UNCHANGED fetchLog
    /\ UNCHANGED <<offsets, nextId, reading, sensor, analyses, creates, now, stationStored, channelsStored, readings>>
\* Step 3: the readings; then the background task is started and the response returned.
FetchReadings(ok, n) ==
    /\ \E rid \in Foreground :
        /\ refreshes[rid].stage = "readings"
        /\ IF ok THEN /\ refreshes' = [refreshes EXCEPT ![rid].stage = "meta",
                                                          ![rid].rows = UpstreamRows(n, now)]
                       /\ out' = Served("UPSTREAM", 200, rid)
           ELSE Fail(rid, "Readings fetch failed")
    /\ UNCHANGED <<offsets, nextId, reading, sensor, analyses, creates, now, fetchLog, stationStored, channelsStored, readings>>

\* storeDataInBackground, storeMetadata: the station upsert, then the channels upsert.
BgStoreMetadata(rid, outcome) ==
    /\ refreshes[rid].stage = "meta"
    /\ stationStored' = (stationStored \/ outcome # "stationError")
    /\ channelsStored' = (channelsStored \/ outcome = "ok")
    /\ refreshes' = [refreshes EXCEPT
                        ![rid].stage =
                            IF outcome # "ok" THEN "storeFailed"
                            ELSE IF Len(refreshes[rid].rows) > 0 THEN "batch" ELSE "log",
                        ![rid].thrown =
                            IF outcome = "stationError" THEN Error("Failed to upsert station")
                            ELSE IF outcome = "channelsError" THEN Error("Failed to upsert channels")
                            ELSE NoError]
    /\ UNCHANGED <<offsets, nextId, reading, sensor, analyses, creates, now, fetchLog, readings, out>>

KeyOf(r) == <<r.channel_id, r.measured_at>>
\* A table without the unique index accepts every insert.
UniqueViolationNever(batch) == FALSE
\* idx_sensor_readings_unique rejects an insert holding a stored (channel_id, measured_at).
UniqueViolation(batch) == \E r \in Range(batch) : KeyOf(r) \in {KeyOf(q) : q \in readings}

\* The batch of storeReadings that starts at row i.
BatchAt(rows, i) == SubSeq(rows, i, Min({i + batchSize - 1, Len(rows)}))

\* A loop that goes on to the next batch whatever the insert returned.
AfterBatchSwallowed(rows, i, failed) ==
    IF i + batchSize > Len(rows) THEN "log" ELSE "batch"
\* The stage after the batch at row i: an insert error is thrown, the last batch ends the loop.
AfterBatch(rows, i, failed) ==
    IF failed THEN "storeFailed"
    ELSE IF i + batchSize > Len(rows) THEN "log" ELSE "batch"

\* storeReadings: one batch insert; an insert error is thrown and ends the task.
BgInsertBatch(rid, dbOk) ==
    /\ refreshes[rid].stage = "batch"
    /\ LET rows == refreshes[rid].rows
           i == refreshes[rid].idx
           batch == BatchAt(rows, i)
           failed == ~dbOk \/ UniqueViolation(batch)
       IN  /\ readings' = IF failed THEN readings ELSE readings \cup Range(batch)
           /\ refreshes' = [refreshes EXCEPT
                               ![rid].stage = AfterBatch(rows, i, failed),
                               ![rid].idx = i + batchSize,
                               ![rid].thrown = IF failed
                                               THEN Error("Failed to insert readings batch")
                                               ELSE NoError]
    /\ UNCHANGED <<offsets, nextId, reading, sensor, analyses, creates, now, fetchLog, stationStored, channelsStored, out>>

\* The api_fetch_log insert that ends the task; its error is not looked at.
BgLogFetch(rid, dbOk) ==
    /\ refreshes[rid].stage = "log"
    /\ fetchLog' = IF ~dbOk THEN fetchLog
                   ELSE fetchLog \cup {[id |-> rid, station_id |-> TARGET_STATION,
                                        status |-> "success", fetch_completed_at |-> now,
                                        readings_count |-> Len(refreshes[rid].rows)]}
    /\ refreshes' = [refreshes EXCEPT ![rid].stage = "done"]
    /\ UNCHANGED <<offsets, nextId, reading, sensor, analyses, creates, now, stationStored, channelsStored, readings, out>>

InitFetch ==
    /\ offsets = {}
    /\ nextId = 1
    /\ reading = NoReading
    /\ sensor = NoSensor
    /\ analyses = {}
    /\ creates = <<>>
    /\ now = 0
    /\ fetchLog = {}
    /\ NoFetch
    /\ out = [op |-> "none"]

NextFetch ==
    \/ Tick
    \/ \E f \in BOOLEAN : Request(f)
    \/ \E ok \in BOOLEAN : Authenticate(ok)
    \/ \E ok \in BOOLEAN : FetchConfig(ok)
    \/ \E ok \in BOOLEAN, n \in 0..MaxReadings : FetchReadings(ok, n)
    \/ \E rid \in 1..MaxRefresh, o \in {"ok", "stationError", "channelsError"} :
            rid \in DOMAIN refreshes /\ BgStoreMetadata(rid, o)
    \/ \E rid \in 1..MaxRefresh, ok \in BOOLEAN : rid \in DOMAIN refreshes /\ BgInsertBatch(rid, ok)
    \/ \E rid \in 1..MaxRefresh, ok \in BOOLEAN : rid \in DOMAIN refreshes /\ BgLogFetch(rid, ok)

SpecFetch == InitFetch /\ [][NextFetch]_vars

\* storeReadings as a function of the table it writes to and of the payload: the task
\* has stored the metadata, the table holds any readings the index admits (the provider
\* may have reported an instant with another value before), the payload is the
\* provider's last n readings.
StoreTimes == {0, TickMinutes, 2 * TickMinutes}
ReadingValues == {7, 8}
StoredRows == [channel_id : Channels, measured_at : StoreTimes, value : ReadingValues]

InitStore ==
    /\ offsets = {}
    /\ nextId = 1
    /\ reading = NoReading
    /\ sensor = NoSensor
    /\ analyses = {}
    /\ creates = <<>>
    /\ now \in StoreTimes
    /\ fetchLog = {}
    /\ stationStored = TRUE
    /\ channelsStored = TRUE
    /\ readings \in {t \in SUBSET StoredRows : \A a, b \in t : KeyOf(a) = KeyOf(b) => a = b}
    /\ \E n \in 1..MaxReadings :
          refreshes = <<[stage |-> "batch", rows |-> UpstreamRows(n, now), idx |-> 1,
                         thrown |-> NoError]>>
    /\ out = [op |-> "none"]

NextStore ==
    \/ \E ok \in BOOLEAN : BgInsertBatch(1, ok)
    \/ \E ok \in BOOLEAN : BgLogFetch(1, ok)

SpecStore == InitStore /\ [][NextStore]_vars

\* The fetch log between its one writer and its one reader: the table holds any rows
\* it admits, a background task has stored its readings and is about to log its fetch,
\* and the stations are checked for freshness as time passes.
InitLog ==
    /\ offsets = {}
    /\ nextId = 1
    /\ reading = NoReading
    /\ sensor = NoSensor
    /\ analyses = {}
    /\ creates = <<>>
    /\ now = 0
    /\ fetchLog \in {l \in SUBSET LogRows : Cardinality(l) <= MaxLog}
    /\ stationStored = TRUE
    /\ channelsStored = TRUE
    /\ readings = {}
    /\ refreshes = <<[stage |-> "log", rows |-> <<>>, idx |-> 1, thrown |-> NoError]>>
    /\ out = [op |-> "none"]

NextLog ==
    \/ Tick
    \/ \E st \in Stations : CheckFreshness(st)
    \/ \E ok \in BOOLEAN : BgLogFetch(1, ok)

SpecLog == InitLog /\ [][NextLog]_vars

\* The calibration manager's handleDeleteReading sends action 'delete_reading' with the
\* reading's id; the endpoint's switch has no such case, so the request falls to default.
DeleteReading(password, readingId) == InvalidAction(password, "delete_reading")

\* The endpoint over a reading table that refreshes have filled.
InitDeleteReading ==
    /\ offsets = {}
    /\ nextId = 1
    /\ reading = NoReading
    /\ sensor = NoSensor
    /\ analyses = {}
    /\ creates = <<>>
    /\ now = 0
    /\ fetchLog = {}
    /\ stationStored = TRUE
    /\ channelsStored = TRUE
    /\ readings \in {t \in SUBSET StoredRows : \A a, b \in t : KeyOf(a) = KeyOf(b) => a = b}
    /\ refreshes = <<>>
    /\ out = [op |-> "none"]

NextDeleteReading ==
    \/ \E p \in Passwords : Unauthorized("delete_reading", p)
    \/ \E p \in Passwords, r \in readings : DeleteReading(p, KeyOf(r))

SpecDeleteReading == InitDeleteReading /\ [][NextDeleteReading]_vars

\* ------------------------------------------------------------------ analysis cache
\* 60 * 60 * 1000 ms.
ONE_HOUR == 60
Languages == {"english", "swahili"}

\* The rows of the cache query:
\*   .eq(station_id).eq(language).gte(created_at, oneHourAgo)
CachedAnalysesAnyLanguage(rows, stationId, language, nowT) ==
    {a \in rows : a.station_id = stationId /\ a.created_at >= nowT - ONE_HOUR}
CachedAnalyses(rows, stationId, language, nowT) ==
    {a \in rows : /\ a.station_id = stationId
                  /\ a.language = language
                  /\ a.created_at >= nowT - ONE_HOUR}

\* .order(created_at, descending).limit(1): any row with the latest created_at.
LatestAnalyses(rows) == {a \in rows : \A b \in rows : a.created_at >= b.created_at}

AnalysisResult(stationId, language, analysis, cached, generatorCalled) ==
    [op |-> "analysis", station |-> stationId, language |-> language, at |-> now,
     analysis |-> analysis, cached |-> cached, generatorCalled |-> generatorCalled]

\* getOrGenerateAnalysis: the cached text if the query has a row; else the generator
\* (analyze-river-health) is called, a failure is thrown, and the new text is inserted
\* (created_at defaults to now(); the insert's error is not looked at) and returned.
getOrGenerateAnalysis(stationId, language, genOk, dbOk) ==
    LET cached == CachedAnalyses(analyses, stationId, language, now)
    IN  /\ IF cached # {}
           THEN /\ \E a \in LatestAnalyses(cached) :
                      out' = AnalysisResult(stationId, language, {a.analysis_text}, TRUE, FALSE)
                /\ UNCHANGED analyses
           ELSE IF ~genOk
           THEN /\ out' = AnalysisResult(stationId, language, Null, FALSE, TRUE)
                /\ UNCHANGED analyses
           ELSE /\ out' = AnalysisResult(stationId, language, {"generated"}, FALSE, TRUE)
                /\ analyses' = IF ~dbOk THEN analyses
                               ELSE analyses \cup {[station_id |-> stationId,
                                                    language |-> language,
                                                    analysis_text |-> "generated",
                                                    created_at |-> now]}
        /\ UNCHANGED <<offsets, nextId, reading, sensor, creates, now, fetchLog, fetchVars>>

\* The cache as a function of the table: any rows written up to an hour before the run.
AnalysisRows ==
    [station_id : Stations, language : Languages, analysis_text : {"a", "b"},
     created_at : {-ONE_HOUR, 2 * TickMinutes - ONE_HOUR}]

InitAnalysis ==
    /\ offsets = {}
    /\ nextId = 1
    /\ reading = NoReading
    /\ sensor = NoSensor
    /\ analyses \in {t \in SUBSET AnalysisRows : Cardinality(t) <= MaxAnalyses}
    /\ creates = <<>>
    /\ now = 0
    /\ fetchLog = {}
    /\ NoFetch
    /\ out = [op |-> "none"]

NextAnalysis ==
    \/ Tick
    \/ \E language \in Languages, genOk \in BOOLEAN, dbOk \in BOOLEAN :
          getOrGenerateAnalysis(TARGET_STATION, language, genOk, dbOk)

SpecAnalysis == InitAnalysis /\ [][NextAnalysis]_vars

\* ------------------------------------------------------------------ malfunction detector
\* A sensor name is the sequence of its characters.
UpperCase == <<"A", "B", "C", "D", "E", "F", "G", "H", "I", "J", "K", "L", "M",
               "N", "O", "P", "Q", "R", "S", "T", "U", "V", "W", "X", "Y", "Z">>
LowerCase == <<"a", "b", "c", "d", "e", "f", "g", "h", "i", "j", "k", "l", "m",
               "n", "o", "p", "q", "r", "s", "t", "u", "v", "w", "x", "y", "z">>
\* A comparison that minds the case.
keepCase(str) == str
\* String.prototype.toLowerCase
toLowerCase(str) ==
    [i \in DOMAIN str |->
        IF \E j \in DOMAIN UpperCase : UpperCase[j] = str[i]
        THEN LowerCase[CHOOSE j \in DOMAIN UpperCase : UpperCase[j] = str[i]]
        ELSE str[i]]
\* String.prototype.includes
includes(str, key) ==
    \E i \in 0..(Len(str) - Len(key)) : SubSeq(str, i + 1, i + Len(key)) = key

\* SENSOR_VALIDATION_RULES in the order Object.entries yields its keys; minValue and
\* maxValue are nullable (allowNegative is never read).
Rule(key, minValue, maxValue) == [key |-> key, minValue |-> minValue, maxValue |-> maxValue]
SENSOR_VALIDATION_RULES ==
    << Rule(<<"p", "h">>, {0}, {14}),
       Rule(<<"d", "o">>, {0}, {350}),
       Rule(<<"d", "o", " ", "%">>, {0}, {120}),
       Rule(<<"t", "e", "m", "p">>, {-10}, {50}),
       Rule(<<"c", "o", "n", "d", "u", "c", "t", "i", "v", "i", "t", "y">>, {0}, Null),
       Rule(<<"s", "c">>, {0}, Null),
       Rule(<<"o", "r", "p">>, {-500}, {500}),
       Rule(<<"d", "e", "p", "t", "h">>, {0}, Null),
       Rule(<<"s", "a", "l", "i", "n", "i", "t", "y">>, {0}, {50}),
       Rule(<<"c", "a", "b", "l", "e", " ", "p", "o", "w", "e", "r">>, {0}, {15}) >>

\* What detectMalfunction returns: reason is undefined (null) for a healthy sensor; a
\* range reason is its template with the bound it prints.
Healthy == [isMalfunctioning |-> FALSE, reason |-> Null]
Malfunction(text, bound) ==
    [isMalfunctioning |-> TRUE, reason |-> {[text |-> text, bound |-> bound]}]

\* sensor.readings.length < 10
TooFewReadingsBelowNine(list) == Len(list) < 9
TooFewReadings(list) == Len(list) < 10

\* Array.prototype.slice(-count): the last count elements, all of them if fewer.
sliceWhole(list, count) == list
slice(list, count) == SubSeq(list, Max({1, Len(list) - count + 1}), Len(list))

RECURSIVE Sum(_)
Sum(list) == IF list = <<>> THEN 0 ELSE Head(list) + Sum(Tail(list))
Squares(list) == [i \in DOMAIN list |-> list[i] * list[i]]

\* stdDev > mean * (num / den) && mean > 1 over the window, in exact arithmetic: with
\* n values of sum S and sum of squares Q, mean = S / n and variance = (n Q - S^2) / n^2,
\* so for a positive mean stdDev > mean * num / den iff den^2 (n Q - S^2) > num^2 S^2.
Erratic(recentValues, num, den) ==
    LET n == Len(recentValues)
        S == Sum(recentValues)
        Q == Sum(Squares(recentValues))
    IN  /\ S > n
        /\ den * den * (n * Q - S * S) > num * num * S * S

\* detectMalfunction of the dashboard with the validation rules: too few readings, the
\* first rule whose key the lower-cased name includes (else the negative fallback),
\* stuck values over the last 20 readings, erratic readings (factor 0.8).
detectMalfunction(s) ==
    IF TooFewReadings(s.readings) THEN Healthy
    ELSE LET sensorNameLower == toLowerCase(s.name)
             rule == Find(SENSOR_VALIDATION_RULES,
                          {i \in DOMAIN SENSOR_VALIDATION_RULES :
                              includes(sensorNameLower, SENSOR_VALIDATION_RULES[i].key)})
             below == \E r \in rule : \E m \in r.minValue : s.currentValue < m
             above == \E r \in rule : \E m \in r.maxValue : s.currentValue > m
             recentValues == slice(s.readings, 20)
         IN  IF below THEN Malfunction("below valid minimum", Val(rule).minValue)
             ELSE IF above THEN Malfunction("above valid maximum", Val(rule).maxValue)
             ELSE IF IsNull(rule) /\ s.currentValue < 0
             THEN Malfunction("Negative value detected", Null)
             ELSE IF Cardinality(Range(recentValues)) = 1
             THEN Malfunction("Sensor reporting constant value (may be stuck)", Null)
             ELSE IF Erratic(recentValues, 4, 5)
             THEN Malfunction("Sensor showing erratic readings", Null)
             ELSE Healthy

\* detectMalfunction of Index.tsx: too few readings, stuck values over the last 20
\* readings, the temperature range, erratic readings (factor 0.5).
detectMalfunctionIndex(s) ==
    IF TooFewReadings(s.readings) THEN Healthy
    ELSE LET recentValues == slice(s.readings, 20)
         IN  IF Cardinality(Range(recentValues)) = 1
             THEN Malfunction("Sensor reporting constant value (may be stuck)", Null)
             ELSE IF /\ includes(toLowerCase(s.name), <<"t", "e", "m", "p">>)
                     /\ (s.currentValue < -10 \/ s.currentValue > 50)
             THEN Malfunction("Temperature reading outside realistic range", Null)
             ELSE IF Erratic(recentValues, 1, 2)
             THEN Malfunction("Sensor showing erratic readings", Null)
             ELSE Healthy

\* renderSensorChart classifies the sensor it draws.
Detect ==
    /\ out' = [op |-> "detect", rules |-> detectMalfunction(sensor),
               index |-> detectMalfunctionIndex(sensor)]
    /\ UNCHANGED <<offsets, nextId, reading, sensor, analyses, creates, now, fetchLog, fetchVars>>

\* The detector as a function of the sensor.  The edge function builds a sensor from a
\* channel with at least one reading and takes currentValue from the latest reading:
\* here k readings of one value followed by readings of the current value.
SensorNames ==
    { <<"p", "H">>, <<"D", "O">>, <<"D", "O", " ", "%">>,
      <<"T", "e", "m", "p", "e", "r", "a", "t", "u", "r", "e", " ", "(", "C", ")">>,
      <<"C", "o", "n", "d", "u", "c", "t", "i", "v", "i", "t", "y">>, <<"S", "C">>,
      <<"O", "R", "P">>, <<"D", "e", "p", "t", "h">>,
      <<"S", "a", "l", "i", "n", "i", "t", "y">>,
      <<"C", "a", "b", "l", "e", " ", "P", "o", "w", "e", "r">>,
      <<"T", "u", "r", "b", "i", "d", "i", "t", "y">> }
EarlierValues == {7, 90}
CurrentValues == {-501, -500, -11, -1, 0, 7, 14, 15, 50, 55, 120, 121, 351, 501}
Series(n, k, a, b) == [i \in 1..n |-> IF i <= k THEN a ELSE b]
Sensors(n) ==
    {[name |-> name, currentValue |-> b, readings |-> Series(n, k, a, b)] :
        name \in SensorNames, b \in CurrentValues, a \in EarlierValues, k \in 0..(n - 1)}

InitDetect ==
    /\ offsets = {}
    /\ nextId = 1
    /\ reading = NoReading
    /\ \E n \in 1..MaxSeries : sensor \in Sensors(n)
    /\ analyses = {}
    /\ creates = <<>>
    /\ now = 0
    /\ fetchLog = {}
    /\ NoFetch
    /\ out = [op |-> "none"]

NextDetect == Detect

SpecDetect == InitDetect /\ [][NextDetect]_vars

\* ------------------------------------------------------------------ claims
\* The instants two rows both cover: none when either interval is empty.
IntervalsOverlap(a, b) ==
    LET lo == Max({a.valid_from, b.valid_from})
        ends == a.valid_until \cup b.valid_until
    IN  \A e \in ends : lo <= e

\* C1: after any sequence of successful create, update and delete actions, no two
\* stored offsets of one channel have overlapping validity intervals.
C1_NoOverlap ==
    \A a, b \in offsets :
        (a.id # b.id /\ a.channel_id = b.channel_id) => ~IntervalsOverlap(a, b)

\* The overlap condition of C2, a null valid_until being unbounded.
Conflicts(rows, d) ==
    \E o \in rows :
        /\ o.channel_id = d.channel_id
        /\ (IsNull(o.valid_until) \/ Val(o.valid_until) >= d.valid_from)
        /\ (IsNull(d.valid_until) \/ o.valid_from <= Val(d.valid_until))

Matching(rows) ==
    {o \in rows : /\ o.channel_id = reading.channelId
                  /\ o.valid_from <= reading.timestamp
                  /\ (o.valid_until = {} \/ \A u \in o.valid_until : reading.timestamp <= u)}

\* C3: resolve applies an offset exactly when one of the reading's channel holds the
\* timestamp in [valid_from, valid_until]; it then returns value + offset_value and
\* that offset, and the edge function's applyOffset returns the same number.
C3_ResolveApplies ==
    out.op = "resolve" =>
        /\ out.offset # Null <=> Matching(offsets) # {}
        /\ out.offset \subseteq Matching(offsets)
        /\ \A o \in out.offset : out.corrected = reading.value + o.offset_value
        /\ out.edgeCorrected = out.corrected

\* An offset was applied to a reading taken at the very instant of its valid_until.
C3_Witness ==
    /\ out.op = "resolve"
    /\ \E o \in out.offset : o.valid_until = {reading.timestamp} /\ o.valid_from < reading.timestamp
    /\ \E o \in offsets : o.channel_id # reading.channelId /\ o.valid_from <= reading.timestamp

\* C4: with no offset of the reading's channel holding its timestamp in the current
\* table, resolve returns the raw value and a null applied offset.
C4_NoMatchRaw ==
    (out.op = "resolve" /\ Matching(offsets) = {}) =>
        /\ out.corrected = reading.value
        /\ out.offset = Null
        /\ out.edgeCorrected = reading.value

\* A reading before the valid_from of its channel's only offset, after a row was deleted.
C4_Witness ==
    /\ out.op = "resolve" /\ out.offset = Null
    /\ \E o \in offsets : o.channel_id = reading.channelId /\ reading.timestamp < o.valid_from
    /\ Cardinality(offsets) < nextId - 1

\* C5: with two or more matching offsets resolve applies exactly the first of them in
\* the order given, never their sum.
C5_FirstMatch ==
    (out.op = "resolve" /\ Cardinality(Matching(offsets)) >= 2) =>
        LET first == Min({i \in DOMAIN out.given : out.given[i] \in Matching(offsets)})
        IN  /\ out.offset = {out.given[first]}
            /\ out.corrected = reading.value + out.given[first].offset_value
            /\ out.edgeCorrected = reading.value + out.given[first].offset_value

\* Two offsets matched and the one given first was not the one with the lowest id.
C5_Witness ==
    /\ out.op = "resolve"
    /\ Cardinality(Matching(offsets)) >= 2
    /\ \E o \in out.offset : \E q \in Matching(offsets) : q.id < o.id

\* isFresh, the negation of shouldFetchFreshData's answer.
IsFreshAnswer == ~out.shouldFetch
\* The completion instants of the station's success rows.
SuccessTimes == {e.fetch_completed_at : e \in {r \in fetchLog : r.status = "success" /\ r.station_id = out.station}}

\* C6: with no success row for the station, isFresh is false whatever the clock and
\* whatever failed or in_progress rows exist.
C6_NoSuccessNotFresh ==
    (out.op = "shouldFetch" /\ SuccessTimes = {}) => ~IsFreshAnswer

\* The station has a failed row, another station a success row, and the clock has moved.
C6_Witness ==
    /\ out.op = "shouldFetch" /\ SuccessTimes = {} /\ out.at > 0
    /\ \E e \in fetchLog : e.station_id = out.station /\ e.status = "failed"
    /\ \E e \in fetchLog : e.station_id # out.station /\ e.status = "success"

\* C7 as stated: with a prior success, isFresh iff now - lastSuccessfulFetchAt < 15.
C7_StrictThreshold ==
    (out.op = "shouldFetch" /\ SuccessTimes # {}) =>
        (IsFreshAnswer <=> out.at - Max(SuccessTimes) < FIFTEEN_MINUTES)

\* C7 amended: with a prior success, isFresh iff now - lastSuccessfulFetchAt <= 15, so
\* an age of exactly the threshold is still fresh; an age of 10 is fresh for the
\* threshold 15 and stale for a threshold of 5.
C7_InclusiveThreshold ==
    (out.op = "shouldFetch" /\ SuccessTimes # {}) =>
        LET last == Max(SuccessTimes)
        IN  /\ IsFreshAnswer <=> out.at - last <= FIFTEEN_MINUTES
            /\ out.at - last = 10 => (IsFreshAnswer /\ StaleAfter(last, out.at, 5))

\* The check ran at an age of exactly 15 minutes.
C7_Witness ==
    /\ out.op = "shouldFetch" /\ SuccessTimes # {}
    /\ out.at - Max(SuccessTimes) = FIFTEEN_MINUTES

\* The station has a success row at most FIFTEEN_MINUTES old.
FreshAt(t) ==
    \E e \in fetchLog : /\ e.station_id = TARGET_STATION /\ e.status = "success"
                        /\ t - e.fetch_completed_at <= FIFTEEN_MINUTES
\* The tables hold the station, its channels and a reading of the last seven days.
HasCachedData ==
    /\ stationStored /\ channelsStored
    /\ \E r \in readings : r.measured_at >= now - SEVEN_DAYS

\* C8 as stated: a request with forceRefresh is served from UPSTREAM, and one without it
\* from CACHE if and only if the station is fresh.
C8_SourceByFreshness ==
    [][\A f \in BOOLEAN : Request(f) =>
          IF f THEN out'.source = "UPSTREAM"
          ELSE (out'.source = "CACHE" <=> FreshAt(now))]_vars

\* C8 amended: a request with forceRefresh is served from UPSTREAM, and one without it
\* from CACHE if and only if the tables hold cached data and the station is fresh.
C8_SourceByCacheAndFreshness ==
    [][\A f \in BOOLEAN : Request(f) =>
          IF f THEN out'.source = "UPSTREAM"
          ELSE (out'.source = "CACHE" <=> (HasCachedData /\ FreshAt(now)))]_vars

\* A request without forceRefresh went upstream although the station was fresh.
C8_Witness ==
    /\ out.op = "fetching" /\ ~out.forceRefresh /\ out.source = "UPSTREAM"
    /\ out.at = now /\ FreshAt(now) /\ ~HasCachedData

\* The refreshes that failed: in the upstream pipeline, or in the background task.
FailedRefreshes == {i \in DOMAIN refreshes : refreshes[i].stage \in {"failed", "storeFailed"}}

\* C9: every failed refresh has a fetch-log row with status failed, and none with
\* status success.
C9_FailureLogged ==
    \A rid \in FailedRefreshes :
        /\ \E e \in fetchLog : e.id = rid /\ e.status = "failed"
        /\ ~\E e \in fetchLog : e.id = rid /\ e.status = "success"

\* The completion instant of the station's latest success row, if any.
LastSuccessfulFetchAt(log) ==
    LET times == {e.fetch_completed_at : e \in SuccessRows(log, TARGET_STATION)}
    IN  IF times = {} THEN Null ELSE {Max(times)}

\* C10: a success row exists for a refresh only once the station, the channels and all
\* rows of that refresh are stored, and counts them; a refresh whose batch insert
\* failed has no success row, and the failing step leaves lastSuccessfulFetchAt as it was.
C10_SuccessAfterAllWritten ==
    /\ [](\A e \in fetchLog : e.status = "success" =>
             /\ e.id \in DOMAIN refreshes
             /\ refreshes[e.id].stage = "done"
             /\ stationStored /\ channelsStored
             /\ Range(refreshes[e.id].rows) \subseteq readings
             /\ e.readings_count = Len(refreshes[e.id].rows))
    /\ [](\A rid \in DOMAIN refreshes : refreshes[rid].stage = "storeFailed" =>
             ~\E e \in fetchLog : e.id = rid)
    /\ [][\A rid \in DOMAIN refreshes :
             (refreshes[rid].stage = "batch" /\ refreshes'[rid].stage = "storeFailed")
                => LastSuccessfulFetchAt(fetchLog') = LastSuccessfulFetchAt(fetchLog)]_vars

\* One refresh stored two batches and was logged; another failed at its second batch,
\* after the first was stored, and has no fetch-log row.
C10_Witness ==
    /\ \E e \in fetchLog : e.status = "success" /\ e.readings_count > batchSize
    /\ \E rid \in DOMAIN refreshes :
          /\ refreshes[rid].stage = "storeFailed"
          /\ refreshes[rid].idx > 1 + batchSize
          /\ refreshes[rid].rows[1] \in readings
          /\ ~\E e \in fetchLog : e.id = rid

\* The (channel_id, measured_at) pairs of a refresh's batch at row idx that are stored.
StoredPairs(rid) ==
    {KeyOf(r) : r \in Range(BatchAt(refreshes[rid].rows, refreshes[rid].idx))}
        \cap {KeyOf(q) : q \in readings}

\* C11: the reading store never holds two readings of one (channel_id, measured_at);
\* a batch insert holding a stored pair fails with an error and leaves every stored
\* reading, its value included, as it was.
C11_UniqueReadings ==
    /\ [](\A a, b \in readings : KeyOf(a) = KeyOf(b) => a = b)
    /\ [][\A rid \in DOMAIN refreshes :
             (/\ refreshes[rid].stage = "batch"
              /\ refreshes'[rid] # refreshes[rid]
              /\ StoredPairs(rid) # {})
                => /\ readings' = readings
                   /\ refreshes'[rid].stage = "storeFailed"
                   /\ refreshes'[rid].thrown # NoError]_vars

\* A batch failed that reported a stored instant with another value, and the stored
\* value is still there.
C11_Witness ==
    \E rid \in DOMAIN refreshes :
        /\ refreshes[rid].stage = "storeFailed"
        /\ \E r \in Range(refreshes[rid].rows), q \in readings :
              KeyOf(r) = KeyOf(q) /\ r.value # q.value

\* The rows a refresh wrote before the batch that failed.
WrittenBefore(rid) == refreshes[rid].idx - batchSize - 1

\* C12: when a batch after the first fails, the rows of the earlier batches stay stored,
\* the task attempts no further batch, and the failure is reported with the count of
\* rows written before it: in the error thrown, or in a fetch-log row of the refresh.
C12_PartialFailureReported ==
    /\ [](\A rid \in DOMAIN refreshes :
             (refreshes[rid].stage = "storeFailed" /\ WrittenBefore(rid) > 0) =>
                 /\ \A i \in 1..WrittenBefore(rid) : refreshes[rid].rows[i] \in readings
                 /\ \/ /\ "written" \in DOMAIN refreshes[rid].thrown
                       /\ refreshes[rid].thrown.written = WrittenBefore(rid)
                    \/ \E e \in fetchLog : /\ e.id = rid /\ e.status = "failed"
                                            /\ e.readings_count = WrittenBefore(rid))
    /\ [][\A rid \in DOMAIN refreshes :
             refreshes[rid].stage = "storeFailed" => refreshes'[rid] = refreshes[rid]]_vars

\* The values of the sensor's trailing window: its last 20 readings, all if fewer.
Window == {sensor.readings[i] : i \in {j \in DOMAIN sensor.readings : j > Len(sensor.readings) - 20}}
\* Both detectors answered that the sensor is malfunctioning / healthy.
BothFlag == out.rules.isMalfunctioning /\ out.index.isMalfunctioning
BothHealthy == out.rules = Healthy /\ out.index = Healthy

\* C13: a sensor with fewer than 10 readings is classified healthy, whatever its name,
\* its current value and its readings.
C13_FewReadingsHealthy ==
    (out.op = "detect" /\ Len(sensor.readings) < 10) => BothHealthy

\* Nine equal readings of a temperature sensor at 55, above its maximum of 50.
C13_Witness ==
    /\ out.op = "detect" /\ Len(sensor.readings) = 9
    /\ includes(toLowerCase(sensor.name), <<"t", "e", "m", "p">>)
    /\ sensor.currentValue = 55 /\ Cardinality(Window) = 1

\* C14: a sensor with at least 10 readings whose trailing window holds a single value
\* is classified malfunctioning, whatever its name and current value.
C14_StuckFlagged ==
    (out.op = "detect" /\ Len(sensor.readings) >= 10 /\ Cardinality(Window) = 1) => BothFlag

\* 21 readings, the first unlike the 20 of the window, the value inside every range,
\* and reported as stuck by both detectors.
C14_Witness ==
    /\ out.op = "detect" /\ Len(sensor.readings) = 21
    /\ Cardinality(Window) = 1 /\ sensor.readings[1] \notin Window
    /\ sensor.currentValue = 7
    /\ \A r \in out.rules.reason \cup out.index.reason :
          r.text = "Sensor reporting constant value (may be stuck)"

\* C15: for every rule of the table whose key the lower-cased name includes, a sensor
\* with at least 10 readings and a current value below the rule's minimum or above its
\* maximum is classified malfunctioning with a reason that cites that bound.
C15_RangeViolationFlagged ==
    (out.op = "detect" /\ Len(sensor.readings) >= 10) =>
        \A i \in DOMAIN SENSOR_VALIDATION_RULES :
            LET rule == SENSOR_VALIDATION_RULES[i]
                violated == {m \in rule.minValue : sensor.currentValue < m}
                                \cup {m \in rule.maxValue : sensor.currentValue > m}
            IN  (includes(toLowerCase(sensor.name), rule.key) /\ violated # {}) =>
                    /\ out.rules.isMalfunctioning
                    /\ \A r \in out.rules.reason : r.bound = violated

\* The authentication failure, and nothing read or written.
Rejected ==
    /\ offsets' = offsets
    /\ readings' = readings
    /\ out'.status = 401 /\ out'.error = "Invalid password"
    /\ out'.status \notin {200, 400, 500}

\* A request with this password reaches the switch on the action.
Dispatched(p) ==
    \/ \E d \in OffsetData : CreateOffset(p, d)
    \/ \E id \in 1..MaxOffsets, d \in OffsetData : UpdateOffset(p, id, d)
    \/ \E id \in 1..MaxOffsets : DeleteOffset(p, id)
    \/ \E a \in CalActions : MissingData(p, a) \/ InvalidAction(p, a)

\* C16: a request whose password differs from the secret never reaches the switch on
\* the action; it, and any request while no secret is set, leaves the offsets and the
\* readings as they were and is answered 401 'Invalid password', whatever its action
\* and data.
C16_WrongPasswordRejected ==
    /\ [](\A p \in Passwords \ {CALIBRATION_PASSWORD} : ~ENABLED Dispatched(p))
    /\ [][\A a \in CalActions :
             /\ \A p \in Passwords \ {CALIBRATION_PASSWORD} : Unauthorized(a, p) => Rejected
             /\ \A p \in Passwords : SecretMissing(a, p) => Rejected]_vars

\* A request was rejected while the table held an offset.
C16_Witness == out.op = "auth" /\ out.status = 401 /\ offsets # {}

\* C17: a delete_reading request with the secret and the id of a stored reading is
\* accepted and removes that reading and nothing else: every other reading and every
\* offset stays.
C17_DeleteReadingRemoves ==
    [][\A r \in readings :
          DeleteReading(CALIBRATION_PASSWORD, KeyOf(r)) =>
              /\ out'.status = 200
              /\ readings' = readings \ {r}
              /\ offsets' = offsets]_vars

\* An entry of the requested station and language created strictly less than an hour,
\* and at most an hour, before the call.
YoungerThanHour(stationId, language) ==
    {a \in analyses : /\ a.station_id = stationId
                      /\ a.language = language
                      /\ now - a.created_at < ONE_HOUR}
AtMostHourOld(stationId, language) ==
    {a \in analyses : /\ a.station_id = stationId
                      /\ a.language = language
                      /\ now - a.created_at <= ONE_HOUR}

\* What a call does given the set of entries that count as cached: with such an entry the
\* text of a most recent one is returned, the generator is not called and the table is
\* left alone; without one the generator is called, and a generated text is returned and
\* stored under the requested station and language.
AnalysisServedFrom(valid, stationId, language, genOk, dbOk) ==
    /\ out'.cached <=> valid # {}
    /\ out'.cached =>
          /\ \E a \in valid : /\ out'.analysis = {a.analysis_text}
                              /\ \A b \in valid : a.created_at >= b.created_at
          /\ ~out'.generatorCalled
          /\ analyses' = analyses
    /\ ~out'.cached =>
          /\ out'.generatorCalled
          /\ genOk => /\ out'.analysis # Null
                      /\ dbOk => \E a \in analyses' \ analyses :
                                    /\ a.station_id = stationId
                                    /\ a.language = language
                                    /\ {a.analysis_text} = out'.analysis
                                    /\ analyses' = analyses \cup {a}
                      /\ ~dbOk => analyses' = analyses
          /\ ~genOk => out'.analysis = Null /\ analyses' = analyses

isFresh(stationUuid) == ~shouldFetchFreshData(fetchLog, stationUuid, now)

\* C19: with the fetch log left as it is, a station that is not fresh is not fresh at any
\* later time (so freshness changes at most once, from true to false), and as time
\* passes every station ends up, and stays, not fresh.
C19_FreshnessDecays ==
    /\ [][fetchLog' = fetchLog =>
             \A st \in Stations : /\ ~isFresh(st) => ~isFresh(st)'
                                  /\ now' >= now]_vars
    /\ \A st \in Stations : <>[](~isFresh(st))

\* A station whose last check, against this log, found it fresh and which is stale now.
C19_Witness ==
    /\ out.op = "shouldFetch"
    /\ ~out.shouldFetch
    /\ out.at < now
    /\ ~isFresh(out.station)
    /\ SuccessRows(fetchLog, out.station) # {}

\* The offsets of the reading's channel whose interval holds the reading's timestamp.
MatchingOffsets ==
    {o \in offsets : o.channel_id = reading.channelId /\ Covers(o, reading.timestamp)}

\* C21: the value drawn for a reading is its raw value plus the offset_value of a matching
\* offset, or the raw value when none matches: the offset is applied exactly once.
C21_OffsetAppliedOnce ==
    out.op = "display" =>
        IF MatchingOffsets = {} THEN out.displayed = out.raw
        ELSE \E o \in MatchingOffsets : out.displayed = out.raw + o.offset_value

\* The bounds of the table that the sensor's current value violates, over every rule
\* whose key the lower-cased name includes.
ViolatedBounds ==
    UNION {{m \in SENSOR_VALIDATION_RULES[i].minValue : sensor.currentValue < m}
              \cup {m \in SENSOR_VALIDATION_RULES[i].maxValue : sensor.currentValue > m} :
           i \in {j \in DOMAIN SENSOR_VALIDATION_RULES :
                     includes(toLowerCase(sensor.name), SENSOR_VALIDATION_RULES[j].key)}}
RangeReasons ==
    {"below valid minimum", "above valid maximum", "Temperature reading outside realistic range"}
StuckAndOutOfRange ==
    /\ out.op = "detect" /\ Len(sensor.readings) >= 10
    /\ Cardinality(Window) = 1
    /\ ViolatedBounds # {}
\* The detector with the rule table, and the detector of Index.tsx (which knows the
\* temperature range only), give the range reason to a stuck sensor out of its range.
RulesRangeFirst ==
    StuckAndOutOfRange =>
        /\ out.rules.isMalfunctioning
        /\ \A r \in out.rules.reason : r.text \in RangeReasons
IndexRangeFirst ==
    (StuckAndOutOfRange /\ includes(toLowerCase(sensor.name), <<"t", "e", "m", "p">>)) =>
        /\ out.index.isMalfunctioning
        /\ \A r \in out.index.reason : r.text \in RangeReasons

\* C22: the checks run in the order range, stuck, erratic: a sensor with at least 10
\* readings whose current value violates its range rule and whose trailing window is
\* constant is given the range reason, not the stuck reason.
C22_RangeBeforeStuck == RulesRangeFirst /\ IndexRangeFirst

NoRuleMatches ==
    \A i \in DOMAIN SENSOR_VALIDATION_RULES :
        ~includes(toLowerCase(sensor.name), SENSOR_VALIDATION_RULES[i].key)
\* At least 10 readings, inside the bounds of every rule of its name (not negative if
\* it has none), and more than one value in the trailing window.
ReachesErraticCheck ==
    /\ out.op = "detect" /\ Len(sensor.readings) >= 10
    /\ ViolatedBounds = {}
    /\ ~(NoRuleMatches /\ sensor.currentValue < 0)
    /\ Cardinality(Window) > 1
\* The classification by standard deviation over 0.8 times the mean, and mean over 1.
ErraticAtFourFifths ==
    IF Erratic(slice(sensor.readings, 20), 4, 5)
    THEN Malfunction("Sensor showing erratic readings", Null)
    ELSE Healthy
RulesErratic == ReachesErraticCheck => out.rules = ErraticAtFourFifths
IndexErratic == ReachesErraticCheck => out.index = ErraticAtFourFifths

\* C23: a sensor with at least 10 readings that passes the range check and whose
\* trailing window is not constant is classified malfunctioning, with the erratic
\* reason, iff the window's standard deviation exceeds 0.8 times its mean and the mean
\* exceeds 1, and healthy otherwise.
C23_ErraticThreshold == RulesErratic /\ IndexErratic

\* The success rows of a station that completed last.
GreatestSuccess(log, stationUuid) ==
    {e \in SuccessRows(log, stationUuid) :
        \A f \in SuccessRows(log, stationUuid) : e.fetch_completed_at >= f.fetch_completed_at}

\* C24: a freshness check answers as it would over the station's latest success row
\* alone, a station found fresh has a success row of its own, and a step never removes
\* or changes a row of the fetch log.
C24_LatestSuccessDecides ==
    /\ [][\A st \in Stations : CheckFreshness(st) =>
             /\ out'.shouldFetch =
                    shouldFetchFreshData(GreatestSuccess(fetchLog, st), st, now)
             /\ ~out'.shouldFetch =>
                    \E e \in fetchLog : e.station_id = st /\ e.status = "success"]_vars
    /\ [][fetchLog \subseteq fetchLog']_vars

\* After the task logged its fetch of the target station at this instant, another station
\* with a failed row no older than the threshold is found stale.
C24_Witness ==
    /\ out.op = "shouldFetch" /\ out.shouldFetch
    /\ out.station # TARGET_STATION
    /\ refreshes[1].stage = "done"
    /\ \E e \in fetchLog : /\ e.station_id = out.station /\ e.status = "failed"
                           /\ e.fetch_completed_at >= out.at - FIFTEEN_MINUTES
    /\ \E e \in fetchLog : /\ e.station_id = TARGET_STATION /\ e.status = "success"
                           /\ e.fetch_completed_at = out.at

\* The refreshes whose response was returned and whose background task has not ended.
Responded == {rid \in DOMAIN refreshes : refreshes[rid].stage \in {"meta", "batch", "log"}}

\* C25: from its response until the last step of its background task a refresh has no
\* fetch-log row, so a request in between is decided by the earlier refreshes alone
\* and, finding the station stale, contacts the provider again.
C25_RespondedBeforeLogged ==
    \A rid \in Responded : ~\E e \in fetchLog : e.id = rid

\* A second request, without forceRefresh, found cached readings of the first refresh,
\* whose task has not logged yet, computed the station as stale and went upstream.
C25_Witness ==
    /\ out.op = "fetching" /\ ~out.forceRefresh /\ out.rid = 2
    /\ 1 \in Responded
    /\ ~IsNull(getCachedData)
    /\ shouldFetchFreshData(fetchLog, TARGET_STATION, out.at)
    /\ refreshes[2].stage = "auth"

\* The offset a reading of the channel at instant t is corrected by, over the rows in
\* the order given.
AppliedAt(given, channelId, t) == applyCalibrationOffset(given, 7, channelId, t).offset

\* C26: deactivation keeps the offset's row and changes only its valid_until, to the
\* present instant; afterwards a reading of the channel from valid_from up to that
\* instant is corrected by the offset, and a later reading is not.
C26_DeactivationKeepsHistory ==
    [][\A before \in offsets :
          DeactivateOffset(CALIBRATION_PASSWORD, before.id) =>
              LET after == [before EXCEPT !.valid_until = {now}]
              IN  /\ offsets' = (offsets \ {before}) \cup {after}
                  /\ \A t \in Times, given \in RowOrders(offsets') :
                        /\ (before.valid_from <= t /\ t <= now) =>
                               AppliedAt(given, before.channel_id, t) = {after}
                        /\ t > now => AppliedAt(given, before.channel_id, t) # {after}]_vars

\* The same on a table where no two offsets of a channel overlap.
DeactivationWithoutOverlap ==
    [][C1_NoOverlap =>
        \A before \in offsets :
          DeactivateOffset(CALIBRATION_PASSWORD, before.id) =>
              LET after == [before EXCEPT !.valid_until = {now}]
              IN  /\ offsets' = (offsets \ {before}) \cup {after}
                  /\ \A t \in Times, given \in RowOrders(offsets') :
                        /\ (before.valid_from <= t /\ t <= now) =>
                               AppliedAt(given, before.channel_id, t) = {after}
                        /\ t > now => AppliedAt(given, before.channel_id, t) # {after}]_vars

\* C27: of two create requests for one channel with overlapping intervals, handled
\* concurrently, at most one ends up stored.
C27_ConcurrentCreatesExclusive ==
    \A i, j \in DOMAIN creates :
        (/\ i # j
         /\ creates[i].data.channel_id = creates[j].data.channel_id
         /\ IntervalsOverlap(creates[i].data, creates[j].data))
            => ~(creates[i].stage = "created" /\ creates[j].stage = "created")

\* C28: a refresh whose upstream calls all succeeded goes on to its success row, also
\* when rows it fetched are stored already.  A task that reaches storeFailed has ended
\* without a fetch-log row, so the claim requires that a batch insert the database is
\* ready to take never ends the task.
C28_OverlappingRefreshLogged ==
    [][\A rid \in DOMAIN refreshes :
          BgInsertBatch(rid, TRUE) => refreshes'[rid].stage # "storeFailed"]_vars

PipelineOrder ==
    {<<"auth", "config">>, <<"config", "readings">>, <<"readings", "meta">>,
     <<"auth", "failed">>, <<"config", "failed">>, <<"readings", "failed">>}

\* C29: a refresh authenticates, fetches the config and fetches the readings in this
\* order, each step after the success of the one before; a failing step is answered 500
\* with the thrown error, ends the refresh, and no step of the pipeline, failed or not,
\* writes a station, channel, reading or fetch-log row.
C29_PipelineInOrder ==
    /\ [][\A rid \in DOMAIN refreshes :
             LET from == refreshes[rid].stage
                 to == refreshes'[rid].stage
             IN  /\ (from \in {"auth", "config", "readings"} /\ to # from) =>
                        /\ <<from, to>> \in PipelineOrder
                        /\ UNCHANGED <<stationStored, channelsStored, readings, fetchLog>>
                        /\ to = "failed" =>
                               /\ out' = Served("UPSTREAM", 500, rid)
                               /\ refreshes'[rid].thrown # NoError
                 /\ from = "failed" => refreshes'[rid] = refreshes[rid]]_vars
    /\ [](\A rid \in DOMAIN refreshes :
             refreshes[rid].stage = "failed" =>
                 /\ refreshes[rid].rows = <<>>
                 /\ ~\E e \in fetchLog : e.id = rid)

\* The second refresh failed at its readings after the first had stored and logged.
C29_Witness ==
    /\ Len(refreshes) = 2
    /\ refreshes[1].stage = "done" /\ fetchLog # {} /\ readings # {}
    /\ refreshes[2].stage = "failed"
    /\ refreshes[2].thrown = Error("Readings fetch failed")
    /\ out = Served("UPSTREAM", 500, 2)

\* The one sensor name tried that holds no key of the table, in any case.
UnknownMetric == sensor.name = <<"T", "u", "r", "b", "i", "d", "i", "t", "y">>
NegativeFallback == Malfunction("Negative value detected", Null)

\* C30: a sensor with at least 10 readings whose name matches no rule of the table is
\* classified malfunctioning, with the negative-value reason, whenever its current value
\* is below 0; a sensor whose name matches a rule never gets that reason.
C30_NegativeFallback ==
    out.op = "detect" =>
        /\ (Len(sensor.readings) >= 10 /\ UnknownMetric /\ sensor.currentValue < 0)
              => out.rules = NegativeFallback
        /\ ~UnknownMetric => out.rules # NegativeFallback

\* Twenty equal negative readings of the unknown metric: the fallback, not the stuck
\* reason.
C30_Witness ==
    /\ out.op = "detect" /\ UnknownMetric
    /\ Len(sensor.readings) = 20 /\ Cardinality(Window) = 1
    /\ sensor.currentValue = -1
    /\ out.rules = NegativeFallback
====
